---- MODULE Spec2Model ----
(***************************************************************************)
(* Bine-Python-API: the context editor (src/bine/context_editor.py) over   *)
(* the MySQL-backed ledgers (src/bine/database.py).                        *)
(*                                                                         *)
(* The store is one MySQL connection shared process-wide.  `db` is what    *)
(* the connection's open transaction sees (committed rows plus the writes  *)
(* issued since the last commit); `durable` is what has been committed.    *)
(* A statement that raises is rolled back alone; the writes issued before  *)
(* it in the same transaction stay pending on the connection.              *)
(***************************************************************************)
EXTENDS Integers, Sequences, FiniteSets, TLC

VARIABLES
    db,                 \* the connection's view: committed rows + pending writes
    durable,            \* the committed rows
    lot_id,             \* BineContextEditor.lot_id of the live editor
    last_block_number,  \* BineContextEditor._last_block_number of the live editor
    call,               \* the most recent call made on the editor
    exc,                \* the exception that call raised, or "none"
    other,              \* a second BineContextEditor on the same handler
    race                \* threads inside BineItemFeature.add / remove

vars == <<db, durable, lot_id, last_block_number, call, exc, other, race>>

----------------------------------------------------------------------------
(* Bounds of the model *)

MaxBalance == 3     \* item calls are explored while |balance| <= MaxBalance
MaxBlock == 2       \* add_block is explored while the counter is < MaxBlock
MaxLots == 2        \* place_lot is explored while lot_id + 1 < MaxLots
MaxDeals == 2       \* buy_lot is explored while fewer than MaxDeals deals exist

(* Inputs *)

NullAddress == "0x0"
Addresses == {"0xAA", "0xBB", NullAddress}
Accounts == Addresses \ {NullAddress}
Items == {1}
Amounts == {1, 2}
LotOwners == {"0xAA"}
LotBuyers == {"0xBB"}
LotItems == {1}
LotPrices == {10}
LotAmounts == {2, 3}
FillAmounts == {1, 2}
LotIds == 0..MaxLots

MonitorName == "BineContextEditor"

----------------------------------------------------------------------------
(* Python values and conversions *)

PyStr(s) == [t |-> "str", v |-> s]
PyInt(n) == [t |-> "int", v |-> n]

HexChars == <<"0", "1", "2", "3", "4", "5", "6", "7",
              "8", "9", "a", "b", "c", "d", "e", "f">>

RECURSIVE HexDigits(_)
HexDigits(n) ==
    IF n < 16 THEN HexChars[n + 1]
    ELSE HexDigits(n \div 16) \o HexChars[(n % 16) + 1]

\* hex(item_id): the form in which item identifiers are stored
hex(n) == IF n < 0 THEN "-0x" \o HexDigits(-n) ELSE "0x" \o HexDigits(n)

\* int(s, base=16) on the address strings of the model
int16(s) ==
    CASE s = "0x0" -> 0
      [] s = "0xAA" -> 170
      [] s = "0xBB" -> 187

RECURSIVE DecDigits(_)
DecDigits(n) ==
    IF n < 10 THEN <<n>> ELSE Append(DecDigits(n \div 10), n % 10)

\* the text MySQL stores when an integer is written to a VARCHAR column
\* (MarketLots.price, MarketDeals.amount), as its sequence of decimal digits
varchar(n) == DecDigits(n)

----------------------------------------------------------------------------
(* The store *)

EmptyStore ==
    [items |-> <<>>,    \* ItemData: <<address, item>> -> amount
     lots  |-> <<>>,    \* MarketLots: lot_id -> [owner, item_id, price, amount, status]
     deals |-> <<>>,    \* MarketDeals, in deal_id order: [lot_id, buyer, amount]
     meta  |-> <<>>]    \* MetaData: name -> lastBlock

\* a transaction in progress on the connection, as the editor's methods see it
Result(d, c, e) == [db |-> d, durable |-> c, exc |-> e]

\* SQLBasedHandler.commit
commit(r) == Result(r.db, r.db, r.exc)

\* an INSERT that leaves the row of a monitor already present as it is
set_last_block_insert_only(d, monitor_name, block_num) ==
    [d EXCEPT !.meta =
        [n \in DOMAIN d.meta \cup {monitor_name} |->
            IF n \in DOMAIN d.meta THEN d.meta[n] ELSE block_num]]

\* INSERT ... ON DUPLICATE KEY UPDATE lastBlock = block_num
set_last_block(d, monitor_name, block_num) ==
    [d EXCEPT !.meta =
        [n \in DOMAIN d.meta \cup {monitor_name} |->
            IF n = monitor_name THEN block_num ELSE d.meta[n]]]

get_last_block(d, monitor_name) ==
    IF monitor_name \in DOMAIN d.meta THEN d.meta[monitor_name] ELSE 0

----------------------------------------------------------------------------
(* BineItemFeature *)

ItemKey(user, item_id) == <<user, hex(item_id)>>

get_amount(d, item_id, user) ==
    IF ItemKey(user, item_id) \in DOMAIN d.items
    THEN d.items[ItemKey(user, item_id)]
    ELSE 0

\* INSERT (user, hex(item_id), volume) ON DUPLICATE KEY
\* UPDATE amount = volume + get_amount(item_id, user)
add(d, item_id, user, volume) ==
    LET k == ItemKey(user, item_id)
        new == IF k \in DOMAIN d.items
               THEN volume + get_amount(d, item_id, user)
               ELSE volume
    IN [d EXCEPT !.items =
           [x \in DOMAIN d.items \cup {k} |-> IF x = k THEN new ELSE d.items[x]]]

\* UPDATE ItemData SET amount = volume - get_amount(item_id, user)
\* WHERE address = user AND item = hex(item_id): no row, no change
remove(d, item_id, user, volume) ==
    LET k == ItemKey(user, item_id)
    IN IF k \in DOMAIN d.items
       THEN [d EXCEPT !.items[k] = volume - get_amount(d, item_id, user)]
       ELSE d

\* SELECT item, amount FROM ItemData WHERE address = user AND amount > 0
get_user_data(d, user) ==
    {<<k[2], d.items[k]>> : k \in {x \in DOMAIN d.items : x[1] = user /\ d.items[x] > 0}}

----------------------------------------------------------------------------
(* BineMarketFeature *)

\* INSERT INTO MarketLots(lot_id, owner, item_id, price, amount); status
\* takes the column default.  Raises IntegrityError on a duplicate lot_id.
add_lot_data_raises(d, id) == id \in DOMAIN d.lots

add_lot_data(d, id, owner, item_id, price, amount) ==
    [d EXCEPT !.lots =
        [x \in DOMAIN d.lots \cup {id} |->
            IF x = id
            THEN [owner |-> owner, item_id |-> hex(item_id),
                  price |-> varchar(price), amount |-> amount,
                  status |-> "ACTIVE"]
            ELSE d.lots[x]]]

\* INSERT INTO MarketDeals raises IntegrityError when the foreign key
\* lot_id references no row of MarketLots; the UPDATE is then not reached.
add_lot_bought_data_raises(d, id) == id \notin DOMAIN d.lots

\* UPDATE MarketLots SET amount = amount - a,
\*   status = IF(amount - a > 0, "PARTIALLY_FILLED", "FILLED") WHERE lot_id = id
\* MySQL evaluates the assignments of a single-table UPDATE from left to
\* right, and a column named in a later assignment has its updated value:
\* the IF reads the amount that the first assignment has just written.
fill_row(row, a) ==
    LET amount1 == row.amount - a
    IN [row EXCEPT !.amount = amount1,
                   !.status = IF amount1 - a > 0 THEN "PARTIALLY_FILLED"
                              ELSE "FILLED"]

add_lot_bought_data(d, id, buyer, amount) ==
    [d EXCEPT !.deals = Append(d.deals, [lot_id |-> id, buyer |-> buyer,
                                         amount |-> varchar(amount)]),
              !.lots[id] = fill_row(d.lots[id], amount)]

\* a cancel that spares the lots that are already FILLED or CANCELED
add_lot_canceled_open_only(d, id) ==
    IF id \in DOMAIN d.lots /\ d.lots[id].status \in {"ACTIVE", "PARTIALLY_FILLED"}
    THEN [d EXCEPT !.lots[id].amount = 0, !.lots[id].status = "CANCELED"]
    ELSE d

\* UPDATE MarketLots SET amount = 0, status = 'CANCELED' WHERE lot_id = id
add_lot_canceled(d, id) ==
    IF id \in DOMAIN d.lots
    THEN [d EXCEPT !.lots[id].amount = 0, !.lots[id].status = "CANCELED"]
    ELSE d

\* a query that selects the lots nobody has bought from yet
get_item_lots_active_only(d, item_id) ==
    {<<l, d.lots[l].owner, d.lots[l].price, d.lots[l].amount>> :
        l \in {x \in DOMAIN d.lots :
                 /\ d.lots[x].item_id = hex(item_id)
                 /\ d.lots[x].status = "ACTIVE"}}

\* SELECT lot_id, owner, price, amount FROM MarketLots
\* WHERE item_id = hex(item_id) AND status IN ('ACTIVE', 'PARTIALLY_FILLED')
get_item_lots(d, item_id) ==
    {<<l, d.lots[l].owner, d.lots[l].price, d.lots[l].amount>> :
        l \in {x \in DOMAIN d.lots :
                 /\ d.lots[x].item_id = hex(item_id)
                 /\ d.lots[x].status \in {"ACTIVE", "PARTIALLY_FILLED"}}}

\* the order of two VARCHAR values of digits: character by character, a
\* proper prefix before the longer text
RECURSIVE TextLess(_, _)
TextLess(s, t) ==
    IF s = <<>> THEN t # <<>>
    ELSE IF t = <<>> THEN FALSE
    ELSE IF Head(s) # Head(t) THEN Head(s) < Head(t)
    ELSE TextLess(Tail(s), Tail(t))

\* MIN() over a VARCHAR column
TextMin(S) == CHOOSE s \in S : \A t \in S : t = s \/ TextLess(s, t)

\* SELECT item_id, MIN(price) FROM MarketLots GROUP BY item_id
get_items(d) ==
    {<<i, TextMin({d.lots[l].price : l \in {x \in DOMAIN d.lots : d.lots[x].item_id = i}})>> :
        i \in {d.lots[l].item_id : l \in DOMAIN d.lots}}

----------------------------------------------------------------------------
(* BineContextEditor: each method takes the transaction r it runs in and  *)
(* gives the transaction it leaves, with the exception it raised.         *)

add_block(r, block_number) ==
    commit(Result(set_last_block(r.db, MonitorName, block_number), r.durable, "none"))

\* a transfer that credits before it debits
transfer_item_credit_first(r, to, amount, transfer_from, item_id) ==
    IF to.t # "str" THEN Result(r.db, r.durable, "TypeError")
    ELSE
      LET d1 == IF int16(to.v) # 0
                THEN add(r.db, item_id, to.v, amount)
                ELSE r.db
      IN IF transfer_from.t # "str" THEN Result(d1, r.durable, "TypeError")
         ELSE
           LET d2 == IF int16(transfer_from.v) # 0
                     THEN remove(d1, item_id, transfer_from.v, amount)
                     ELSE d1
           IN commit(Result(d2, r.durable, "none"))

\* int(x, base=16) raises TypeError unless x is a str
transfer_item(r, to, amount, transfer_from, item_id) ==
    IF transfer_from.t # "str" THEN Result(r.db, r.durable, "TypeError")
    ELSE
      LET d1 == IF int16(transfer_from.v) # 0
                THEN remove(r.db, item_id, transfer_from.v, amount)
                ELSE r.db
      IN IF to.t # "str" THEN Result(d1, r.durable, "TypeError")
         ELSE
           LET d2 == IF int16(to.v) # 0
                     THEN add(d1, item_id, to.v, amount)
                     ELSE d1
           IN commit(Result(d2, r.durable, "none"))

create_item(r, owner, amount, item_id) ==
    transfer_item(r, PyStr(owner), amount, PyInt(0), item_id)

remove_item(r, owner, amount, item_id) ==
    transfer_item(r, PyInt(0), amount, PyStr(owner), item_id)

\* id is the lot_id the method has just incremented to
place_lot(r, id, owner, item_id, price, amount) ==
    IF add_lot_data_raises(r.db, id)
    THEN Result(r.db, r.durable, "IntegrityError")
    ELSE commit(Result(add_lot_data(r.db, id, owner, item_id, price, amount),
                       r.durable, "none"))

\* a buy_lot on a MarketDeals table that has no foreign key
buy_lot_no_foreign_key(r, id, buyer, amount) ==
    LET deal == [lot_id |-> id, buyer |-> buyer, amount |-> varchar(amount)]
        d1 == [r.db EXCEPT !.deals = Append(r.db.deals, deal)]
        d2 == IF id \in DOMAIN d1.lots
              THEN [d1 EXCEPT !.lots[id] = fill_row(d1.lots[id], amount)]
              ELSE d1
    IN commit(Result(d2, r.durable, "none"))

buy_lot(r, id, buyer, amount) ==
    IF add_lot_bought_data_raises(r.db, id)
    THEN Result(r.db, r.durable, "IntegrityError")
    ELSE commit(Result(add_lot_bought_data(r.db, id, buyer, amount),
                       r.durable, "none"))

cancel_lot(r, id) ==
    commit(Result(add_lot_canceled(r.db, id), r.durable, "none"))

----------------------------------------------------------------------------
(* The state machine *)

Now == Result(db, durable, exc)

Call(op, args) == [op |-> op, args |-> args]

Balances(d) == {d.items[k] : k \in DOMAIN d.items}
InBalanceBound(d) == \A b \in Balances(d) : -MaxBalance <= b /\ b <= MaxBalance

Returns(r, c) ==
    /\ db' = r.db
    /\ durable' = r.durable
    /\ exc' = r.exc
    /\ call' = c
    /\ UNCHANGED <<other, race>>

\* a BineContextEditor as its constructor leaves it
NewEditor == [lot_id |-> -1, last_block_number |-> 0]

\* no thread is inside the item feature
NoRace == <<>>

Init ==
    /\ db = EmptyStore
    /\ durable = EmptyStore
    /\ lot_id = -1
    /\ last_block_number = 0
    /\ call = Call("init", <<>>)
    /\ exc = "none"
    /\ other = NewEditor
    /\ race = NoRace

AddBlock ==
    /\ last_block_number < MaxBlock
    /\ last_block_number' = last_block_number + 1
    /\ Returns(add_block(Now, last_block_number + 1), Call("add_block", <<>>))
    /\ UNCHANGED lot_id

CreateItem(owner, amount, item_id) ==
    /\ Returns(create_item(Now, owner, amount, item_id),
               Call("create_item", <<owner, amount, item_id>>))
    /\ InBalanceBound(db')
    /\ UNCHANGED <<lot_id, last_block_number>>

RemoveItem(owner, amount, item_id) ==
    /\ Returns(remove_item(Now, owner, amount, item_id),
               Call("remove_item", <<owner, amount, item_id>>))
    /\ InBalanceBound(db')
    /\ UNCHANGED <<lot_id, last_block_number>>

TransferItem(to, amount, transfer_from, item_id) ==
    /\ Returns(transfer_item(Now, PyStr(to), amount, PyStr(transfer_from), item_id),
               Call("transfer_item", <<to, amount, transfer_from, item_id>>))
    /\ InBalanceBound(db')
    /\ UNCHANGED <<lot_id, last_block_number>>

PlaceLot(owner, item_id, price, amount) ==
    /\ lot_id + 1 < MaxLots
    /\ lot_id' = lot_id + 1
    /\ Returns(place_lot(Now, lot_id + 1, owner, item_id, price, amount),
               Call("place_lot", <<owner, item_id, price, amount>>))
    /\ UNCHANGED last_block_number

BuyLot(id, buyer, amount) ==
    /\ Len(db.deals) < MaxDeals
    /\ Returns(buy_lot(Now, id, buyer, amount), Call("buy_lot", <<id, buyer, amount>>))
    /\ UNCHANGED <<lot_id, last_block_number>>

CancelLot(id) ==
    /\ Returns(cancel_lot(Now, id), Call("cancel_lot", <<id>>))
    /\ UNCHANGED <<lot_id, last_block_number>>

\* the process dies and is started again: the pending writes of the
\* connection are lost and a new editor is constructed on the store
Crash ==
    /\ db' = durable
    /\ durable' = durable
    /\ lot_id' = -1
    /\ last_block_number' = 0
    /\ call' = Call("crash", <<>>)
    /\ exc' = "none"
    /\ other' = NewEditor
    /\ UNCHANGED race

\* the caller turns to the other editor instance of the process: the two
\* share the handler and its connection, each has its own counters
Switch ==
    /\ lot_id' = other.lot_id
    /\ last_block_number' = other.last_block_number
    /\ other' = [lot_id |-> lot_id, last_block_number |-> last_block_number]
    /\ call' = Call("switch", <<>>)
    /\ exc' = "none"
    /\ UNCHANGED <<db, durable, race>>

NextLedger ==
    \/ \E o \in Accounts, a \in Amounts, i \in Items : CreateItem(o, a, i)
    \/ \E o \in Accounts, a \in Amounts, i \in Items : RemoveItem(o, a, i)
    \/ \E to \in Addresses, a \in Amounts, f \in Addresses, i \in Items :
          TransferItem(to, a, f, i)
    \/ AddBlock
    \/ Crash

NextMarket ==
    \/ \E o \in LotOwners, i \in LotItems, p \in LotPrices, a \in LotAmounts :
          PlaceLot(o, i, p, a)
    \/ \E l \in LotIds, b \in LotBuyers, a \in FillAmounts : BuyLot(l, b, a)
    \/ \E l \in LotIds : CancelLot(l)
    \/ Crash

\* two editor instances of one process placing and canceling lots
NextEditors ==
    \/ \E o \in LotOwners, i \in LotItems, p \in LotPrices, a \in LotAmounts :
          PlaceLot(o, i, p, a)
    \/ \E l \in LotIds : CancelLot(l)
    \/ Switch

----------------------------------------------------------------------------
(* Two threads of one process inside BineItemFeature.add / remove on one  *)
(* (account, item) key.  The method first evaluates the parameters of its *)
(* statement, which calls get_amount (a SELECT), and then executes the    *)
(* statement with the amount it computed from what it read.               *)

Threads == {1, 2}
RaceUser == "0xAA"
RaceItem == 1

\* the statement of add, given the amount get_amount returned
add_execute(d, item_id, user, volume, seen) ==
    LET k == ItemKey(user, item_id)
    IN [d EXCEPT !.items =
           [x \in DOMAIN d.items \cup {k} |->
               IF x = k
               THEN (IF k \in DOMAIN d.items THEN volume + seen ELSE volume)
               ELSE d.items[x]]]

\* the statement of remove, given the amount get_amount returned
remove_execute(d, item_id, user, volume, seen) ==
    LET k == ItemKey(user, item_id)
    IN IF k \in DOMAIN d.items
       THEN [d EXCEPT !.items[k] = volume - seen]
       ELSE d

\* the stores in which the key is absent or holds one earlier credit
RaceStores == {EmptyStore} \cup {add(EmptyStore, RaceItem, RaceUser, c) : c \in Amounts}

InitRace ==
    /\ db \in RaceStores
    /\ durable = db
    /\ lot_id = -1
    /\ last_block_number = 0
    /\ call = Call("init", <<>>)
    /\ exc = "none"
    /\ other = NewEditor
    /\ \E ops \in [Threads -> {"add", "remove"}], vols \in [Threads -> Amounts] :
          race = [start |-> get_amount(db, RaceItem, RaceUser),
                  th |-> [t \in Threads |->
                            [op |-> ops[t], volume |-> vols[t],
                             pc |-> "call", seen |-> 0]]]

\* thread t evaluates self.get_amount(item_id, user)
ReadAmount(t) ==
    /\ race.th[t].pc = "call"
    /\ race' = [race EXCEPT !.th[t].pc = "execute",
                            !.th[t].seen = get_amount(db, RaceItem, RaceUser)]
    /\ UNCHANGED <<db, durable, lot_id, last_block_number, call, exc, other>>

\* thread t executes its INSERT or UPDATE
Execute(t) ==
    /\ race.th[t].pc = "execute"
    /\ db' = IF race.th[t].op = "add"
             THEN add_execute(db, RaceItem, RaceUser, race.th[t].volume, race.th[t].seen)
             ELSE remove_execute(db, RaceItem, RaceUser, race.th[t].volume, race.th[t].seen)
    /\ race' = [race EXCEPT !.th[t].pc = "done"]
    /\ UNCHANGED <<durable, lot_id, last_block_number, call, exc, other>>

NextRace ==
    \/ \E t \in Threads : ReadAmount(t)
    \/ \E t \in Threads : Execute(t)

\* the order book with lots of two items at two prices
BookItems == {1, 17}
BookPrices == {9, 10}
BookAmounts == {2, 3}

NextBook ==
    \/ \E o \in LotOwners, i \in BookItems, p \in BookPrices, a \in BookAmounts :
          PlaceLot(o, i, p, a)
    \/ \E l \in LotIds, b \in LotBuyers, a \in FillAmounts : BuyLot(l, b, a)
    \/ \E l \in LotIds : CancelLot(l)

SpecBook == Init /\ [][NextBook]_vars
SpecRace == InitRace /\ [][NextRace]_vars
SpecLedger == Init /\ [][NextLedger]_vars
SpecEditors == Init /\ [][NextEditors]_vars
SpecMarket == Init /\ [][NextMarket]_vars

----------------------------------------------------------------------------
(* Properties *)

Ledger(d) == [items |-> d.items, lots |-> d.lots, deals |-> d.deals]
HasRow(d, user, item_id) == ItemKey(user, item_id) \in DOMAIN d.items
OtherRowsKept(d, e, user, item_id) ==
    \A k \in DOMAIN d.items : k # ItemKey(user, item_id) =>
        k \in DOMAIN e.items /\ e.items[k] = d.items[k]
OpenStatuses == {"ACTIVE", "PARTIALLY_FILLED"}
TerminalStatuses == {"FILLED", "CANCELED"}

\* C1: a credit of a on one (account, item) key raises its balance by a and
\* a debit of a on a balance c leaves c - a, so that the balance after any
\* sequence of credits and debits is the credits minus the debits.
C1_BalanceIsCreditsMinusDebits ==
    [][\A u \in Accounts, a \in Amounts, i \in Items :
        /\ TransferItem(u, a, NullAddress, i) =>
              get_amount(db', i, u) = get_amount(db, i, u) + a
        /\ (HasRow(db, u, i) /\ TransferItem(NullAddress, a, u, i)) =>
              get_amount(db', i, u) = get_amount(db, i, u) - a]_vars

\* C2: a fill of a (0 < a <= r) on an ACTIVE or PARTIALLY_FILLED lot with
\* remaining amount r leaves r - a, and the status FILLED exactly when
\* r - a <= 0, PARTIALLY_FILLED otherwise.
C2_FillDecrementsAndSetsStatus ==
    [][\A l \in LotIds, b \in LotBuyers, a \in FillAmounts :
        (/\ l \in DOMAIN db.lots
         /\ db.lots[l].status \in OpenStatuses
         /\ 0 < a /\ a <= db.lots[l].amount
         /\ BuyLot(l, b, a))
        => /\ db'.lots[l].amount = db.lots[l].amount - a
           /\ db'.lots[l].status =
                 IF db.lots[l].amount - a <= 0 THEN "FILLED" ELSE "PARTIALLY_FILLED"]_vars

\* C3: a buy_lot on a lot that is FILLED or CANCELED is rejected: it changes
\* no lot and records no deal.
C3_TerminalLotRejectsFill ==
    [][\A l \in LotIds, b \in LotBuyers, a \in FillAmounts :
        (/\ l \in DOMAIN db.lots
         /\ db.lots[l].status \in TerminalStatuses
         /\ BuyLot(l, b, a))
        => db'.lots = db.lots /\ db'.deals = db.deals]_vars

\* C4: a ledger mutation becomes durable only together with the checkpoint
\* advance that accompanies it: no step changes the committed ledger and
\* leaves the committed checkpoint as it was.
C4_LedgerAndCheckpointCommitTogether ==
    [][Ledger(durable') # Ledger(durable) => durable'.meta # durable.meta]_vars

\* the event of call c applied once more to the transaction r
reapply(r, c, next_lot_id) ==
    CASE c.op = "transfer_item" ->
           transfer_item(r, PyStr(c.args[1]), c.args[2], PyStr(c.args[3]), c.args[4])
      [] c.op = "place_lot" ->
           place_lot(r, next_lot_id, c.args[1], c.args[2], c.args[3], c.args[4])
      [] c.op = "buy_lot" -> buy_lot(r, c.args[1], c.args[2], c.args[3])
      [] c.op = "cancel_lot" -> cancel_lot(r, c.args[1])
      [] OTHER -> r

\* C5: once an event has been applied and the checkpoint advanced for its
\* block, applying the same event again leaves balances, lots and deals as
\* they were.
C5_ReplayAfterCheckpointChangesNothing ==
    [][(call.op \in {"transfer_item", "place_lot", "buy_lot", "cancel_lot"}
          /\ exc = "none" /\ AddBlock)
        => Ledger(reapply(Result(db', durable', exc'), call, lot_id' + 1).db)
             = Ledger(db')]_vars

\* C6: create_item(owner, amount, item) raises nothing, raises the balance
\* of (owner, item) by amount, touches no other row, and get_user_data(owner)
\* then lists the item with the new balance.
C6_CreateItemCredits ==
    [][\A o \in Accounts, a \in Amounts, i \in Items :
        CreateItem(o, a, i) =>
          /\ exc' = "none"
          /\ get_amount(db', i, o) = get_amount(db, i, o) + a
          /\ OtherRowsKept(db, db', o, i)
          /\ (get_amount(db', i, o) > 0 =>
                <<hex(i), get_amount(db', i, o)>> \in get_user_data(db', o))]_vars

\* C7: remove_item(owner, m, item) on a balance n with 0 < m <= n raises
\* nothing, leaves n - m and touches no other row.
C7_RemoveItemDebits ==
    [][\A o \in Accounts, m \in Amounts, i \in Items :
        (/\ HasRow(db, o, i)
         /\ 0 < m /\ m <= get_amount(db, i, o)
         /\ RemoveItem(o, m, i))
        => /\ exc' = "none"
           /\ get_amount(db', i, o) = get_amount(db, i, o) - m
           /\ OtherRowsKept(db, db', o, i)]_vars

\* C8: transfer_item between two non-null addresses (the same one included)
\* leaves the store that items.remove on the sender followed by items.add on
\* the receiver leaves, the add reading the balance the remove has written.
C8_TransferIsDebitThenCredit ==
    [][call'.op = "transfer_item" =>
        LET to == call'.args[1]
            a  == call'.args[2]
            f  == call'.args[3]
            i  == call'.args[4]
        IN (to \in Accounts /\ f \in Accounts /\ TransferItem(to, a, f, i)) =>
             /\ db' = add(remove(db, i, f, a), i, to, a)
             /\ durable' = db'
             /\ exc' = "none"]_vars

\* a transfer of a from an account to itself has run on a row that held
\* c # a before: the row now holds 2a - c, which is a only if c = a
C8_Witness ==
    /\ call.op = "transfer_item"
    /\ call.args[1] \in Accounts
    /\ call.args[3] = call.args[1]
    /\ HasRow(db, call.args[1], call.args[4])
    /\ get_amount(db, call.args[4], call.args[1]) # call.args[2]
    /\ exc = "none"

\* C9: cancel_lot on an existing lot, whatever its status and remaining
\* amount, leaves remaining amount 0 and status CANCELED, leaves every other
\* lot alone, and a second cancel_lot changes nothing more.
C9_CancelLotForcesCanceled ==
    [][call'.op = "cancel_lot" =>
        LET l == call'.args[1]
        IN (l \in DOMAIN db.lots /\ CancelLot(l)) =>
             /\ exc' = "none"
             /\ DOMAIN db'.lots = DOMAIN db.lots
             /\ db'.lots[l].amount = 0
             /\ db'.lots[l].status = "CANCELED"
             /\ \A m \in DOMAIN db.lots : m # l => db'.lots[m] = db.lots[m]
             /\ durable' = db'
             /\ cancel_lot(Result(db', durable', exc'), l)
                   = Result(db', durable', exc')]_vars

\* lot 0 has been filled at least once and then canceled, lot 1 is untouched
C9_Witness ==
    /\ call.op = "cancel_lot"
    /\ call.args[1] = 0
    /\ {0, 1} \subseteq DOMAIN db.lots
    /\ db.lots[0].status = "CANCELED" /\ db.lots[0].amount = 0
    /\ \E n \in DOMAIN db.deals : db.deals[n].lot_id = 0
    /\ db.lots[1].status = "ACTIVE"

\* C11: every place_lot call of a process, through either editor instance,
\* returns without error and allocates an identifier no earlier call
\* allocated: the identifier is new and above every identifier placed
\* before, so the identifiers are 0, 1, 2, ... in the order of the calls, and
\* the call inserts, committed, an ACTIVE lot with the given owner, item,
\* price and amount and leaves the other lots alone.
C11_LotIdsStrictlyIncreasing ==
    [][call'.op = "place_lot" =>
        /\ exc' = "none"
        /\ lot_id' \notin DOMAIN db.lots
        /\ \A l \in DOMAIN db.lots : l < lot_id'
        /\ DOMAIN db'.lots = 0..lot_id'
        /\ db'.lots[lot_id'] =
              [owner |-> call'.args[1], item_id |-> hex(call'.args[2]),
               price |-> varchar(call'.args[3]), amount |-> call'.args[4],
               status |-> "ACTIVE"]
        /\ \A l \in DOMAIN db.lots : db'.lots[l] = db.lots[l]
        /\ durable' = db']_vars

\* C10: no lot ever has a remaining amount below 0.
C10_RemainingNeverNegative ==
    \A l \in DOMAIN db.lots : db.lots[l].amount >= 0

\* C12: get_last_block gives 0 while the monitor has no row; every add_block
\* raises the editor's counter by exactly one and leaves the monitor's
\* single row, committed, holding the new counter value, so that n calls on
\* a new editor leave n.
C12_AddBlockStoresCounter ==
    [][/\ (MonitorName \notin DOMAIN db'.meta =>
             last_block_number' = 0 /\ get_last_block(db', MonitorName) = 0)
       /\ (call'.op = "add_block" =>
             /\ exc' = "none"
             /\ last_block_number' = last_block_number + 1
             /\ DOMAIN db'.meta = {MonitorName}
             /\ get_last_block(db', MonitorName) = last_block_number'
             /\ get_last_block(durable', MonitorName) = last_block_number')]_vars

\* two add_block calls in a row on an editor have left 2
C12_Witness ==
    /\ call.op = "add_block"
    /\ last_block_number = 2
    /\ get_last_block(durable, MonitorName) = 2

\* C13: two concurrent credits on one key lose no update: when both calls
\* have returned, the balance is the balance they started on plus the two
\* credited amounts, whatever the interleaving of their reads and writes.
C13_ConcurrentCreditsAllCounted ==
    (\A t \in Threads : race.th[t].pc = "done" /\ race.th[t].op = "add") =>
        get_amount(db, RaceItem, RaceUser)
          = race.start + race.th[1].volume + race.th[2].volume

IsPrefix(s, t) == Len(s) <= Len(t) /\ SubSeq(t, 1, Len(s)) = s

\* C14: every deal references a lot of the lot table; a buy_lot on a lot
\* identifier that is not there adds no deal, a buy_lot that returns adds
\* exactly one deal, with the given lot, buyer and amount, and no step
\* changes or removes a deal recorded before.
C14_DealsReferenceLotsAndAreKept ==
    [][/\ \A n \in DOMAIN db'.deals : db'.deals[n].lot_id \in DOMAIN db'.lots
       /\ IsPrefix(db.deals, db'.deals)
       /\ IsPrefix(durable.deals, durable'.deals)
       /\ IF call'.op = "buy_lot" /\ exc' = "none"
          THEN db'.deals = Append(db.deals, [lot_id |-> call'.args[1],
                                            buyer |-> call'.args[2],
                                            amount |-> varchar(call'.args[3])])
          ELSE db'.deals = db.deals
       /\ (call'.op = "buy_lot" /\ call'.args[1] \notin DOMAIN db.lots) =>
             exc' # "none" /\ db'.deals = db.deals]_vars

\* one fill has been recorded on lot 0, and a buy_lot on an identifier that
\* is not in the lot table has just been refused and has recorded nothing
C14_Witness ==
    /\ call.op = "buy_lot"
    /\ exc = "IntegrityError"
    /\ call.args[1] \notin DOMAIN db.lots
    /\ Len(db.deals) = 1
    /\ db.deals[1].lot_id = 0
    /\ 0 \in DOMAIN db.lots

\* C15: a buy_lot or cancel_lot on a lot identifier that was never placed
\* raises and leaves the store, committed and pending, as it was.
C15_UnknownLotIsAnError ==
    [][(call'.op \in {"buy_lot", "cancel_lot"}
          /\ call'.args[1] \notin DOMAIN db.lots)
        => exc' # "none" /\ db' = db /\ durable' = durable]_vars

\* C16: no (account, item) row ever holds a quantity below 0.
C16_BalancesNeverNegative ==
    \A k \in DOMAIN durable.items : durable.items[k] >= 0

\* C19: the writes of a call that raised never become durable: while such
\* writes are pending on the connection, an add_block commits no change of
\* the ledger, and a transfer_item commits what it would have committed
\* had the failed call written nothing.
C19_FailedCallLeavesNothingToCommit ==
    [][(db # durable) =>
        /\ (call'.op = "add_block" => Ledger(durable') = Ledger(durable))
        /\ (call'.op = "transfer_item" /\ exc' = "none" =>
              Ledger(durable')
                = Ledger(reapply(Result(durable, durable, "none"), call', 0).db))]_vars

\* C20: the stored lastBlock of the monitor never decreases: no add_block,
\* also on an editor constructed over a store that holds a checkpoint
\* already, leaves a value below the one stored before it.
C20_CheckpointNeverDecreases ==
    [][call'.op = "add_block" =>
        get_last_block(durable', MonitorName) >= get_last_block(durable, MonitorName)]_vars

\* C17: get_item_lots(item) returns exactly the lots placed for that item
\* whose status is ACTIVE or PARTIALLY_FILLED, each with its identifier,
\* owner, price and remaining amount.
C17_OpenLotsOfTheItemOnly ==
    \A i \in BookItems :
        /\ \A row \in get_item_lots(db, i) :
              /\ row[1] \in DOMAIN db.lots
              /\ db.lots[row[1]].item_id = hex(i)
              /\ db.lots[row[1]].status \in OpenStatuses
              /\ row = <<row[1], db.lots[row[1]].owner, db.lots[row[1]].price,
                         db.lots[row[1]].amount>>
        /\ \A l \in DOMAIN db.lots :
              (db.lots[l].item_id = hex(i) /\ db.lots[l].status \in OpenStatuses)
                => \E row \in get_item_lots(db, i) : row[1] = l

\* lot 0 of item 1, placed with 3 and bought from once, is PARTIALLY_FILLED
\* and is returned for item 1 with its remaining amount; lot 1 of item 17,
\* bought out, is FILLED and is returned for neither item
C17_Witness ==
    /\ DOMAIN db.lots = {0, 1}
    /\ db.lots[0].item_id = hex(1) /\ db.lots[0].status = "PARTIALLY_FILLED"
    /\ db.lots[1].item_id = hex(17) /\ db.lots[1].status = "FILLED"
    /\ get_item_lots(db, 1) = {<<0, db.lots[0].owner, db.lots[0].price, 2>>}
    /\ get_item_lots(db, 17) = {}

\* the integer a text of decimal digits denotes
RECURSIVE DecValue(_)
DecValue(s) ==
    IF s = <<>> THEN 0 ELSE 10 * DecValue(SubSeq(s, 1, Len(s) - 1)) + s[Len(s)]

\* C18: for every item with a lot, get_items gives the numerically smallest
\* price among the lots of the item.
C18_BestPriceIsNumericMinimum ==
    \A r \in get_items(db) :
        \A l \in DOMAIN db.lots :
            db.lots[l].item_id = r[1] => DecValue(r[2]) <= DecValue(db.lots[l].price)

====
